---- MODULE Spec2Model ----
(***************************************************************************)
(* Application.cpp of TheChernoOpenGL as a state machine.                  *)
(*                                                                         *)
(* pc is main's position, named after the source line about to execute     *)
(* ("L146" = line 146).  A GLCall(x) site takes three steps, "a" (the       *)
(* GLClearError call), "b" (the wrapped expression x) and "c" (the         *)
(* ASSERT(GLLogCall(...)) check).  "exited" is a return from main,         *)
(* "trapped" is __debugbreak, "crashed" is an access fault.                *)
(*                                                                         *)
(* The OpenGL/GLFW/GLEW libraries are the environment: whether a call      *)
(* succeeds, which error flags it raises, which object names it hands out, *)
(* the compile status and the uniform location are chosen with \E.  Object *)
(* creation (glCreateProgram, glCreateShader, glGenBuffers) is taken to    *)
(* succeed once a context is current.                                      *)
(*                                                                         *)
(* Text is a sequence of tokens.  A line is a sequence over Tokens, a      *)
(* string buffer a sequence over Tokens and NL, the terminator std::endl   *)
(* writes.  line.find(k) != npos is membership of the token k.             *)
(***************************************************************************)
EXTENDS Integers, Sequences, FiniteSets, TLC

VARIABLES
    pc, exitCode, stderr, stdout,   \* main's position, return value, output streams
    glfw,                           \* GLFW library / window / context state
    pending, callErrs,              \* GL error flags; flags raised by the last wrapped call
    bufs,                           \* buffer objects: glGenBuffers/glDeleteBuffers calls made
    input,                          \* content of res/shaders/basic.shader (empty when missing)
    pos, type, ss,                  \* ParseShader locals: stream position, section, ss[2]
    source,                         \* main: ShaderProgramSource source
    shaders, prog,                  \* shader objects and the program object held by the driver
    program, vs, fs,                \* CreateShader locals
    shader, location,               \* main locals
    resolveCount, uniformLocs, drawCount,  \* calls made: glGetUniformLocation, glUniform4f, glDrawElements
    frames, frameCount, anim        \* loop iterations begun, GetFPS counter, r/g/b and increments

vars == <<pc, exitCode, stderr, stdout, glfw, pending, callErrs, bufs, input,
          pos, type, ss, source, shaders, prog, program, vs, fs, shader, location,
          resolveCount, uniformLocs, drawCount, frames, frameCount, anim>>

ioVars == <<stderr, stdout>>
parseVars == <<pos, type, ss>>
shaderVars == <<shaders, prog, program, vs, fs>>
unifVars == <<location, resolveCount, uniformLocs>>
loopVars == <<drawCount, frames, frameCount, anim>>

----------------------------------------------------------------------------
(* Bounds *)

MaxLines == 4       \* lines in the shader file
MaxFrames == 2      \* render-loop iterations before the window is closed
MaxHandle == 3      \* object names the driver hands out are 1..MaxHandle
MaxLocation == 1    \* uniform locations are -1 or 0..MaxLocation

----------------------------------------------------------------------------
(* Text *)

NL == "\n"
Tokens == {"#shader", "vertex", "fragment", "x"}

\* The line vocabulary: blank, plain text, text naming a stage without the
\* directive, the directive alone, with one keyword (in either position), and
\* with both keywords.
Lines ==
    { <<>>, <<"x">>, <<"vertex">>, <<"x", "fragment">>,
      <<"#shader">>, <<"#shader", "vertex">>, <<"#shader", "fragment">>,
      <<"vertex", "#shader">>, <<"x", "#shader", "fragment">>,
      <<"#shader", "vertex", "fragment">>, <<"#shader", "fragment", "vertex">> }

\* The files of at most MaxLines lines: a file of n lines is a sequence
\* of length n over Lines
FilesOfLen(n) == [1..n -> Lines]

Files == UNION { FilesOfLen(n) : n \in 0..MaxLines }

\* The files main is run on: missing or empty, well formed, fragment section
\* first, text before the first directive, no directive at all.
MainFiles ==
    { <<>>,
      <<<<"#shader", "vertex">>, <<"x">>, <<"#shader", "fragment">>, <<"x">>>>,
      <<<<"#shader", "fragment">>, <<"x">>, <<"#shader", "vertex">>, <<"x">>>>,
      <<<<"x">>, <<"#shader", "vertex">>, <<"x">>>>,
      <<<<"x">>>> }

\* line.find(k) != std::string::npos
Contains(line, k) == \E i \in 1..Len(line) : line[i] = k

----------------------------------------------------------------------------
(* ParseShader *)

NONE == -1
VERTEX == 0
FRAGMENT == 1

\* line 46
IsMarker(line) == Contains(line, "#shader")

MarkerType_reset(t, line) ==
    IF Contains(line, "vertex") THEN VERTEX
    ELSE IF Contains(line, "fragment") THEN FRAGMENT
    ELSE NONE

\* lines 47-50: the section after a marker line
MarkerType(t, line) ==
    IF Contains(line, "vertex") THEN VERTEX
    ELSE IF Contains(line, "fragment") THEN FRAGMENT
    ELSE t

StreamInsert_noendl(buf, line) == buf \o line

\* line 53: ss[i] << line << std::endl
StreamInsert(buf, line) == buf \o line \o <<NL>>

\* line 53 with type == NONE: ss[-1] lies outside the two-element array ss.
\* The behaviour is undefined; the write either lands in memory nothing reads
\* again or faults.
OutOfBoundsOutcomes == {"discarded", "fault"}

EmptySS == [i \in {VERTEX, FRAGMENT} |-> <<>>]

\* line 158 / lines 34-44: the call opens the stream and sets up the locals
L158_ParseShader ==
    /\ pc = "L158"
    /\ pos' = 0
    /\ type' = NONE
    /\ ss' = EmptySS
    /\ pc' = "L45"
    /\ UNCHANGED <<exitCode, ioVars, glfw, pending, callErrs, bufs, input, source,
                   shaderVars, shader, unifVars, loopVars>>

\* lines 45-55: one iteration of the getline loop
ParseLine ==
    /\ pc = "L45"
    /\ pos < Len(input)
    /\ LET line == input[pos + 1] IN
        IF IsMarker(line)
        THEN /\ type' = MarkerType(type, line)
             /\ pos' = pos + 1
             /\ UNCHANGED <<ss, pc>>
        ELSE IF type \in {VERTEX, FRAGMENT}
        THEN /\ ss' = [ss EXCEPT ![type] = StreamInsert(@, line)]
             /\ pos' = pos + 1
             /\ UNCHANGED <<type, pc>>
        ELSE \E o \in OutOfBoundsOutcomes :
                IF o = "discarded"
                THEN /\ pos' = pos + 1
                     /\ UNCHANGED <<type, ss, pc>>
                ELSE /\ pc' = "crashed"
                     /\ UNCHANGED <<pos, type, ss>>
    /\ UNCHANGED <<exitCode, ioVars, glfw, pending, callErrs, bufs, input, source,
                   shaderVars, shader, unifVars, loopVars>>

\* lines 45, 57: getline fails at end of input; return {ss[0].str(), ss[1].str()}
ParseReturn ==
    /\ pc = "L45"
    /\ pos = Len(input)
    /\ source' = [VertexSource |-> ss[VERTEX], FragmentSource |-> ss[FRAGMENT]]
    /\ pc' = "L159"
    /\ UNCHANGED <<exitCode, ioVars, glfw, pending, callErrs, bufs, input, parseVars,
                   shaderVars, shader, unifVars, loopVars>>

----------------------------------------------------------------------------
(* The graphics driver *)

ErrorCodes == {"GL_INVALID_VALUE", "GL_INVALID_OPERATION"}
Handles == 1..MaxHandle

\* A GL call may raise error flags; glGetError later returns and clears them.
Raise(E) == pending' = pending \cup E

\* A shader object keeps its name until it is deleted and no longer attached.
Named(o) == o.deleteRequests = 0 \/ o.attached
ProgramNamed == prog.created > 0 /\ (prog.deleteRequests = 0 \/ prog.current = prog.handle)

\* Shader and program objects share one name space.
NamesInUse ==
    { shaders[i].handle : i \in { j \in 1..Len(shaders) : Named(shaders[j]) } }
        \cup (IF ProgramNamed THEN {prog.handle} ELSE {})
FreeNames == Handles \ NamesInUse

glDeleteShader_forgotten(shs, h) == shs

\* glDeleteShader(h): a value of 0 is silently ignored
glDeleteShader(shs, h) ==
    IF h = 0 THEN shs
    ELSE [i \in 1..Len(shs) |->
            IF shs[i].handle = h /\ Named(shs[i])
            THEN [shs[i] EXCEPT !.deleteRequests = @ + 1]
            ELSE shs[i]]

\* glAttachShader(program, h): attaches the shader object named h, if any
glAttachShader(shs, h) ==
    [i \in 1..Len(shs) |->
        IF h # 0 /\ shs[i].handle = h /\ Named(shs[i])
        THEN [shs[i] EXCEPT !.attached = TRUE]
        ELSE shs[i]]

glDeleteProgram_forgotten(p, h) == p

\* glDeleteProgram(h): a value of 0 is silently ignored
glDeleteProgram(p, h) ==
    IF h # 0 /\ h = p.handle /\ p.created > 0
    THEN [p EXCEPT !.deleteRequests = @ + 1]
    ELSE p

NoProgram ==
    [handle |-> 0, created |-> 0, attachRequests |-> <<>>, linkRequests |-> 0,
     validateRequests |-> 0, deleteRequests |-> 0, current |-> 0]

----------------------------------------------------------------------------
(* The diagnostic wrapper *)

ASSERT_ignored(x, next) == next

\* line 10: #define ASSERT(x) if (!(x)) __debugbreak();
\* the position reached after ASSERT(x), given the statement after it
ASSERT(x, next) == IF x THEN next ELSE "trapped"

GLClearError_skipped(p) == p

\* lines 15-17: the loop calls glGetError until no flag is left
GLClearError(p) == {}

\* GLCall(x), step a: GLClearError();
GLCall_Clear(site, callPc) ==
    /\ pc = site
    /\ pending' = GLClearError(pending)
    /\ callErrs' = {}
    /\ pc' = callPc
    /\ UNCHANGED <<exitCode, ioVars, glfw, bufs, input, parseVars, source,
                   shaderVars, shader, unifVars, loopVars>>

\* lines 19-26 and 13: GLCall(x), step c: ASSERT(GLLogCall(#x, __FILE__, __LINE__))
\* glGetError returns and clears one of the recorded flags; the first one
\* found is printed and GLLogCall returns false.
GLCall_Log(site, function, line, next) ==
    /\ pc = site
    /\ IF pending = {}
       THEN /\ pc' = ASSERT(TRUE, next)
            /\ UNCHANGED <<pending, stdout>>
       ELSE \E error \in pending :
            /\ pending' = pending \ {error}
            /\ stdout' = Append(stdout,
                   <<"[OpenGL Error]", error, "Application.cpp", function, line>>)
            /\ pc' = ASSERT(FALSE, next)
    /\ UNCHANGED <<exitCode, stderr, glfw, callErrs, bufs, input, parseVars, source,
                   shaderVars, shader, unifVars, loopVars>>

----------------------------------------------------------------------------
(* CompileShader and CreateShader *)

StageName_fragment(stage) == "fragment"

\* line 75: type == GL_VERTEX_SHADER ? "vertex" : "fragment"
StageName(stage) == IF stage = "GL_VERTEX_SHADER" THEN "vertex" ELSE "fragment"

CompileFailureResult_id(id) == id

\* line 79: return 0;
CompileFailureResult(id) == 0

\* lines 60-83.  id is the name glCreateShader hands out, ok the compile
\* status; result is the variable the caller assigns.
CompileShader(stage, src, result) ==
    \E id \in FreeNames, ok \in BOOLEAN, E \in SUBSET ErrorCodes :
        LET obj == [handle |-> id, stage |-> stage, source |-> src, compiled |-> ok,
                    attached |-> FALSE, deleteRequests |-> 0]
        IN  /\ Raise(E)
            /\ IF ok
               THEN /\ shaders' = Append(shaders, obj)
                    /\ stderr' = stderr
                    /\ result = id
               ELSE /\ shaders' = glDeleteShader(Append(shaders, obj), id)
                    /\ stderr' = stderr \o << <<"Failed to compile ", StageName(stage)>>,
                                              <<"message", id>> >>
                    /\ result = CompileFailureResult(id)

\* line 159 / line 86: unsigned int program = glCreateProgram();
L86_CreateProgram ==
    /\ pc = "L159"
    /\ \E id \in FreeNames, E \in SUBSET ErrorCodes :
        /\ prog' = [NoProgram EXCEPT !.handle = id, !.created = prog.created + 1]
        /\ program' = id
        /\ Raise(E)
    /\ pc' = "L87"
    /\ UNCHANGED <<exitCode, ioVars, glfw, callErrs, bufs, input, parseVars, source,
                   shaders, vs, fs, shader, unifVars, loopVars>>

\* line 87
L87_CompileVertex ==
    /\ pc = "L87"
    /\ CompileShader("GL_VERTEX_SHADER", source.VertexSource, vs')
    /\ pc' = "L88"
    /\ UNCHANGED <<exitCode, stdout, glfw, callErrs, bufs, input, parseVars, source,
                   prog, program, fs, shader, unifVars, loopVars>>

\* line 88
L88_CompileFragment ==
    /\ pc = "L88"
    /\ CompileShader("GL_FRAGMENT_SHADER", source.FragmentSource, fs')
    /\ pc' = "L90"
    /\ UNCHANGED <<exitCode, stdout, glfw, callErrs, bufs, input, parseVars, source,
                   prog, program, vs, shader, unifVars, loopVars>>

\* lines 90, 91: glAttachShader(program, h); the name 0 raises GL_INVALID_VALUE
AttachStep(site, h, next) ==
    /\ pc = site
    /\ prog' = [prog EXCEPT !.attachRequests = Append(@, h)]
    /\ shaders' = glAttachShader(shaders, h)
    /\ \E E \in SUBSET ErrorCodes :
        Raise(IF h = 0 THEN E \cup {"GL_INVALID_VALUE"} ELSE E)
    /\ pc' = next
    /\ UNCHANGED <<exitCode, ioVars, glfw, callErrs, bufs, input, parseVars, source,
                   program, vs, fs, shader, unifVars, loopVars>>

L90_AttachVertex == AttachStep("L90", vs, "L91")
L91_AttachFragment == AttachStep("L91", fs, "L92")

\* line 92
L92_Link ==
    /\ pc = "L92"
    /\ prog' = [prog EXCEPT !.linkRequests = @ + 1]
    /\ \E E \in SUBSET ErrorCodes : Raise(E)
    /\ pc' = "L93"
    /\ UNCHANGED <<exitCode, ioVars, glfw, callErrs, bufs, input, parseVars, source,
                   shaders, program, vs, fs, shader, unifVars, loopVars>>

\* line 93
L93_Validate ==
    /\ pc = "L93"
    /\ prog' = [prog EXCEPT !.validateRequests = @ + 1]
    /\ \E E \in SUBSET ErrorCodes : Raise(E)
    /\ pc' = "L95"
    /\ UNCHANGED <<exitCode, ioVars, glfw, callErrs, bufs, input, parseVars, source,
                   shaders, program, vs, fs, shader, unifVars, loopVars>>

\* lines 95, 96
DeleteStep(site, h, next) ==
    /\ pc = site
    /\ shaders' = glDeleteShader(shaders, h)
    /\ \E E \in SUBSET ErrorCodes : Raise(E)
    /\ pc' = next
    /\ UNCHANGED <<exitCode, ioVars, glfw, callErrs, bufs, input, parseVars, source,
                   prog, program, vs, fs, shader, unifVars, loopVars>>

L95_DeleteVertex == DeleteStep("L95", vs, "L96")
L96_DeleteFragment == DeleteStep("L96", fs, "L98")

CreateShaderResult_checked(p, v, f) == IF v = 0 \/ f = 0 THEN 0 ELSE p

\* line 98: return program;
CreateShaderResult(p, v, f) == p

\* lines 98, 159: unsigned int shader = CreateShader(...)
L98_Return ==
    /\ pc = "L98"
    /\ shader' = CreateShaderResult(program, vs, fs)
    /\ pc' = "L160"
    /\ UNCHANGED <<exitCode, ioVars, glfw, pending, callErrs, bufs, input, parseVars,
                   source, shaderVars, unifVars, loopVars>>

----------------------------------------------------------------------------
(* main *)

\* The names glGenBuffers writes to buffer and ibo are read by the glBindBuffer
\* call that follows and by nothing else; the model keeps the call counts.
NoBuffers ==
    [buffer |-> [generated |-> 0, deleted |-> 0],
     ibo |-> [generated |-> 0, deleted |-> 0]]

NoSource == [VertexSource |-> <<>>, FragmentSource |-> <<>>]

\* lines 166-173, in hundredths
InitialAnim ==
    [r |-> 0, r_increment |-> 5, g |-> 0, g_increment |-> 1, b |-> 100, b_increment |-> 30]

\* lines 108-109: if (!glfwInit()) return -1;
L108_glfwInit ==
    /\ pc = "L108"
    /\ \E ok \in BOOLEAN :
        IF ok
        THEN /\ glfw' = [glfw EXCEPT !.initialized = TRUE]
             /\ pc' = "L113"
             /\ UNCHANGED exitCode
        ELSE /\ exitCode' = -1
             /\ pc' = "exited"
             /\ UNCHANGED glfw
    /\ UNCHANGED <<ioVars, pending, callErrs, bufs, input, parseVars, source,
                   shaderVars, shader, unifVars, loopVars>>

\* lines 113-118
L113_CreateWindow ==
    /\ pc = "L113"
    /\ \E ok \in BOOLEAN :
        IF ok
        THEN /\ glfw' = [glfw EXCEPT !.window = TRUE]
             /\ pc' = "L122"
             /\ UNCHANGED exitCode
        ELSE /\ glfw' = [initialized |-> FALSE, window |-> FALSE, context |-> FALSE]
             /\ exitCode' = -1
             /\ pc' = "exited"
    /\ UNCHANGED <<ioVars, pending, callErrs, bufs, input, parseVars, source,
                   shaderVars, shader, unifVars, loopVars>>

ReportGlewFailure_silent(err) == err

\* line 127: std::cerr << "[ERROR] Error initializing GLEW\n";
ReportGlewFailure(err) == Append(err, <<"[ERROR] Error initializing GLEW">>)

\* lines 122-131: make the context current, set the swap interval, load the
\* extensions, print the version
L122_Context ==
    /\ pc = "L122"
    /\ glfw' = [glfw EXCEPT !.context = TRUE]
    /\ \E ok \in BOOLEAN :
        IF ok
        THEN /\ stdout' = Append(stdout, <<"GL_VERSION">>)
             /\ pc' = "L146"
             /\ UNCHANGED <<stderr, exitCode>>
        ELSE /\ stderr' = ReportGlewFailure(stderr)
             /\ exitCode' = -1
             /\ pc' = "exited"
             /\ UNCHANGED stdout
    /\ UNCHANGED <<pending, callErrs, bufs, input, parseVars, source,
                   shaderVars, shader, unifVars, loopVars>>

\* lines 145-151: the vertex buffer and its attribute layout
L146_VertexBuffer ==
    /\ pc = "L146"
    /\ bufs' = [bufs EXCEPT !.buffer.generated = @ + 1]
    /\ \E E \in SUBSET ErrorCodes : Raise(E)
    /\ pc' = "L153"
    /\ UNCHANGED <<exitCode, ioVars, glfw, callErrs, input, parseVars, source,
                   shaderVars, shader, unifVars, loopVars>>

\* lines 153-156: the index buffer
L153_IndexBuffer ==
    /\ pc = "L153"
    /\ bufs' = [bufs EXCEPT !.ibo.generated = @ + 1]
    /\ \E E \in SUBSET ErrorCodes : Raise(E)
    /\ pc' = "L158"
    /\ UNCHANGED <<exitCode, ioVars, glfw, callErrs, input, parseVars, source,
                   shaderVars, shader, unifVars, loopVars>>

\* line 160: glUseProgram(shader);
L160_UseProgram ==
    /\ pc = "L160"
    /\ prog' = [prog EXCEPT !.current = shader]
    /\ \E E \in SUBSET ErrorCodes : Raise(E)
    /\ pc' = "L162a"
    /\ UNCHANGED <<exitCode, ioVars, glfw, callErrs, bufs, input, parseVars, source,
                   shaders, program, vs, fs, shader, unifVars, loopVars>>

\* line 162: GLCall(int location = glGetUniformLocation(shader, "u_Color"));
L162_Clear == GLCall_Clear("L162a", "L162b")

L162_GetUniformLocation ==
    /\ pc = "L162b"
    /\ \E loc \in -1..MaxLocation, E \in SUBSET ErrorCodes :
        /\ location' = loc
        /\ callErrs' = E
        /\ Raise(E)
    /\ resolveCount' = resolveCount + 1
    /\ pc' = "L162c"
    /\ UNCHANGED <<exitCode, ioVars, glfw, bufs, input, parseVars, source,
                   shaderVars, shader, uniformLocs, loopVars>>

L162_Log ==
    GLCall_Log("L162c", "int location = glGetUniformLocation(shader, \"u_Color\")", 162, "L163")

\* line 163: ASSERT(location != -1);
L163_Assert ==
    /\ pc = "L163"
    /\ pc' = ASSERT(location # -1, "L164a")
    /\ UNCHANGED <<exitCode, ioVars, glfw, pending, callErrs, bufs, input, parseVars,
                   source, shaderVars, shader, unifVars, loopVars>>

\* lines 164, 205: the wrapped expression glUniform4f(location, ...)
Uniform4f(site, next) ==
    /\ pc = site
    /\ uniformLocs' = uniformLocs \cup {location}
    /\ \E E \in SUBSET ErrorCodes :
        /\ callErrs' = E
        /\ Raise(E)
    /\ pc' = next
    /\ UNCHANGED <<exitCode, ioVars, glfw, bufs, input, parseVars, source,
                   shaderVars, shader, location, resolveCount, loopVars>>

\* line 164: GLCall(glUniform4f(location, 0.5f, 0.3f, 0.8f, 1.0f));
L164_Clear == GLCall_Clear("L164a", "L164b")
L164_Uniform4f == Uniform4f("L164b", "L164c")
L164_Log == GLCall_Log("L164c", "glUniform4f(location, 0.5f, 0.3f, 0.8f, 1.0f)", 164, "L166")

\* lines 166-176
L166_InitLoop ==
    /\ pc = "L166"
    /\ anim' = InitialAnim
    /\ frameCount' = 0
    /\ pc' = "L178"
    /\ UNCHANGED <<exitCode, ioVars, glfw, pending, callErrs, bufs, input, parseVars,
                   source, shaderVars, shader, unifVars, drawCount, frames>>

\* line 178: while (!glfwWindowShouldClose(window)); the window is closed
\* after MaxFrames iterations at the latest
L178_LoopTest ==
    /\ pc = "L178"
    /\ \E close \in BOOLEAN :
        IF close
        THEN /\ pc' = "L215"
             /\ UNCHANGED frames
        ELSE /\ frames < MaxFrames
             /\ frames' = frames + 1
             /\ pc' = "L180"
    /\ UNCHANGED <<exitCode, ioVars, glfw, pending, callErrs, bufs, input, parseVars,
                   source, shaderVars, shader, unifVars, drawCount, frameCount, anim>>

\* lines 186-203 for one channel, in hundredths
NextIncrement(v, inc, step) ==
    IF v > 100 THEN -step ELSE IF v < 0 THEN step ELSE inc

\* lines 180-203: GetFPS (lines 220-233), glClear, the colour update
L180_Frame ==
    /\ pc = "L180"
    /\ \E secondPassed \in BOOLEAN :
        IF secondPassed
        THEN /\ stdout' = Append(stdout, <<"FPS: ", frameCount + 1>>)
             /\ frameCount' = 0
        ELSE /\ frameCount' = frameCount + 1
             /\ UNCHANGED stdout
    /\ \E E \in SUBSET ErrorCodes : Raise(E)
    /\ LET ri == NextIncrement(anim.r, anim.r_increment, 5)
           gi == NextIncrement(anim.g, anim.g_increment, 1)
           bi == NextIncrement(anim.b, anim.b_increment, 3)
       IN anim' = [r |-> anim.r + ri, r_increment |-> ri,
                   g |-> anim.g + gi, g_increment |-> gi,
                   b |-> anim.b + bi, b_increment |-> bi]
    /\ pc' = "L205a"
    /\ UNCHANGED <<exitCode, stderr, glfw, callErrs, bufs, input, parseVars,
                   source, shaderVars, shader, unifVars, drawCount, frames>>

\* line 205: GLCall(glUniform4f(location, r, g, b, 1.0f));
L205_Clear == GLCall_Clear("L205a", "L205b")
L205_Uniform4f == Uniform4f("L205b", "L205c")
L205_Log == GLCall_Log("L205c", "glUniform4f(location, r, g, b, 1.0f)", 205, "L206a")

\* line 206: GLCall(glDrawElements(GL_TRIANGLES, 6, GL_UNSIGNED_INT, nullptr));
L206_Clear == GLCall_Clear("L206a", "L206b")

L206_DrawElements ==
    /\ pc = "L206b"
    /\ drawCount' = drawCount + 1
    /\ \E E \in SUBSET ErrorCodes :
        /\ callErrs' = E
        /\ Raise(E)
    /\ pc' = "L206c"
    /\ UNCHANGED <<exitCode, ioVars, glfw, bufs, input, parseVars, source,
                   shaderVars, shader, unifVars, frames, frameCount, anim>>

L206_Log ==
    GLCall_Log("L206c", "glDrawElements(GL_TRIANGLES, 6, GL_UNSIGNED_INT, nullptr)", 206, "L209")

\* lines 209-212: glfwSwapBuffers(window); glfwPollEvents();
L209_SwapPoll ==
    /\ pc = "L209"
    /\ pc' = "L178"
    /\ UNCHANGED <<exitCode, ioVars, glfw, pending, callErrs, bufs, input, parseVars,
                   source, shaderVars, shader, unifVars, loopVars>>

\* line 215: glDeleteProgram(shader);
L215_DeleteProgram ==
    /\ pc = "L215"
    /\ prog' = glDeleteProgram(prog, shader)
    /\ \E E \in SUBSET ErrorCodes : Raise(E)
    /\ pc' = "L217"
    /\ UNCHANGED <<exitCode, ioVars, glfw, callErrs, bufs, input, parseVars, source,
                   shaders, program, vs, fs, shader, unifVars, loopVars>>

\* lines 217-218: glfwTerminate(); return 0;
\* glfwTerminate destroys the window and its context
L217_Terminate ==
    /\ pc = "L217"
    /\ glfw' = [initialized |-> FALSE, window |-> FALSE, context |-> FALSE]
    /\ exitCode' = 0
    /\ pc' = "exited"
    /\ UNCHANGED <<ioVars, pending, callErrs, bufs, input, parseVars, source,
                   shaderVars, shader, unifVars, loopVars>>

----------------------------------------------------------------------------
(* Specifications *)

\* main is entered; exitCode is read only once pc = "exited"
Init ==
    /\ pc = "L108"
    /\ exitCode = 0
    /\ stderr = <<>>
    /\ stdout = <<>>
    /\ glfw = [initialized |-> FALSE, window |-> FALSE, context |-> FALSE]
    /\ pending = {}
    /\ callErrs = {}
    /\ bufs = NoBuffers
    /\ input \in MainFiles
    /\ pos = 0
    /\ type = NONE
    /\ ss = EmptySS
    /\ source = NoSource
    /\ shaders = <<>>
    /\ prog = NoProgram
    /\ program = 0
    /\ vs = 0
    /\ fs = 0
    /\ shader = 0
    /\ location = 0
    /\ resolveCount = 0
    /\ uniformLocs = {}
    /\ drawCount = 0
    /\ frames = 0
    /\ frameCount = 0
    /\ anim = InitialAnim

Next ==
    \/ L108_glfwInit \/ L113_CreateWindow \/ L122_Context
    \/ L146_VertexBuffer \/ L153_IndexBuffer
    \/ L158_ParseShader \/ ParseLine \/ ParseReturn
    \/ L86_CreateProgram \/ L87_CompileVertex \/ L88_CompileFragment
    \/ L90_AttachVertex \/ L91_AttachFragment \/ L92_Link \/ L93_Validate
    \/ L95_DeleteVertex \/ L96_DeleteFragment \/ L98_Return
    \/ L160_UseProgram
    \/ L162_Clear \/ L162_GetUniformLocation \/ L162_Log \/ L163_Assert
    \/ L164_Clear \/ L164_Uniform4f \/ L164_Log
    \/ L166_InitLoop \/ L178_LoopTest \/ L180_Frame
    \/ L205_Clear \/ L205_Uniform4f \/ L205_Log
    \/ L206_Clear \/ L206_DrawElements \/ L206_Log
    \/ L209_SwapPoll \/ L215_DeleteProgram \/ L217_Terminate

Spec == Init /\ [][Next]_vars

\* ParseShader alone, on every file of at most MaxLines lines: main has
\* reached line 158 with both buffers generated
InitParse ==
    /\ pc = "L158"
    /\ exitCode = 0
    /\ stderr = <<>>
    /\ stdout = << <<"GL_VERSION">> >>
    /\ glfw = [initialized |-> TRUE, window |-> TRUE, context |-> TRUE]
    /\ pending = {}
    /\ callErrs = {}
    /\ bufs = [buffer |-> [generated |-> 1, deleted |-> 0],
               ibo |-> [generated |-> 1, deleted |-> 0]]
    /\ input \in Files
    /\ pos = 0
    /\ type = NONE
    /\ ss = EmptySS
    /\ source = NoSource
    /\ shaders = <<>>
    /\ prog = NoProgram
    /\ program = 0
    /\ vs = 0
    /\ fs = 0
    /\ shader = 0
    /\ location = 0
    /\ resolveCount = 0
    /\ uniformLocs = {}
    /\ drawCount = 0
    /\ frames = 0
    /\ frameCount = 0
    /\ anim = InitialAnim

NextParse == L158_ParseShader \/ ParseLine \/ ParseReturn

SpecParse == InitParse /\ [][NextParse]_vars

----------------------------------------------------------------------------
(* ParseShader: what the splitter is required to produce *)

HasToken(line, k) == k \in { line[i] : i \in 1..Len(line) }

KeywordMarkers(lines) ==
    { i \in 1..Len(lines) :
        /\ HasToken(lines[i], "#shader")
        /\ HasToken(lines[i], "vertex") \/ HasToken(lines[i], "fragment") }

\* The section named by the most recent marker line that carries a keyword
SectionAfter(lines) ==
    LET K == KeywordMarkers(lines) IN
    IF K = {} THEN NONE
    ELSE LET m == CHOOSE i \in K : \A j \in K : j <= i
         IN IF HasToken(lines[m], "vertex") THEN VERTEX ELSE FRAGMENT

\* The content lines of section s, each followed by a terminator, in order
RECURSIVE SectionText(_, _)
SectionText(lines, s) ==
    IF lines = <<>> THEN <<>>
    ELSE LET n == Len(lines)
             front == SubSeq(lines, 1, n - 1)
         IN SectionText(front, s) \o
            (IF ~HasToken(lines[n], "#shader") /\ SectionAfter(front) = s
             THEN lines[n] \o <<NL>> ELSE <<>>)

Consumed == SubSeq(input, 1, pos)

\* C1: every non-marker line read while the section is VERTEX or FRAGMENT is
\* appended, with a terminator and in input order, to the buffer of that
\* section and to no other: during the loop each buffer is exactly the text
\* of its section in the lines consumed so far, the returned strings are the
\* section texts of the whole file, and no marker line is in either buffer.
C1_SectionsAppended ==
    /\ pc = "L45" =>
        \A s \in {VERTEX, FRAGMENT} : ss[s] = SectionText(Consumed, s)
    /\ pc = "L159" =>
        /\ source.VertexSource = SectionText(input, VERTEX)
        /\ source.FragmentSource = SectionText(input, FRAGMENT)
    /\ \A s \in {VERTEX, FRAGMENT} : ~HasToken(ss[s], "#shader")
    /\ ~HasToken(source.VertexSource, "#shader")
    /\ ~HasToken(source.FragmentSource, "#shader")

C1_Witness ==
    /\ pc = "L159"
    /\ source.VertexSource # <<>>
    /\ source.FragmentSource # <<>>
    /\ \E i \in 1..Len(input) : HasToken(input[i], "#shader")

NoMarkerIn(lines) == \A i \in 1..Len(lines) : ~HasToken(lines[i], "#shader")

\* C2: a file without marker lines yields two empty strings, a line read
\* while the section is NONE is discarded without changing any state, and no
\* error is raised at parse time.
C2_DiscardedWithoutError ==
    /\ pc # "crashed"
    /\ (pc = "L159" /\ NoMarkerIn(input)) => source = NoSource

\* C3: the section starts at NONE, changes only when a marker line is read,
\* never returns to NONE once it has left it, and is at every moment the
\* section named by the most recent keyword-bearing marker line, whichever
\* of the two markers came first.
C3_SectionStateMachine ==
    /\ [](pc = "L45" /\ pos = 0 => type = NONE)
    /\ [](pc \in {"L45", "L159", "crashed"} => type = SectionAfter(Consumed))
    /\ [][type # NONE => type' # NONE]_vars
    /\ [][type' # type =>
            /\ pc = "L45"
            /\ pos < Len(input)
            /\ HasToken(input[pos + 1], "#shader")]_vars

C3_Witness ==
    /\ pc = "L159"
    /\ Len(input) >= 3
    /\ input[1] = <<"#shader", "fragment">>
    /\ input[2] = <<"#shader", "vertex">>
    /\ source.VertexSource # <<>>
    /\ source.FragmentSource = <<>>

----------------------------------------------------------------------------
(* CompileShader and CreateShader: claims *)

LastShader == shaders[Len(shaders)]
FailedShaders == { i \in 1..Len(shaders) : ~shaders[i].compiled }

C4_CompileStep ==
    pc \in {"L87", "L88"} /\ pc' # pc =>
        LET o == shaders'[Len(shaders')]
            r == IF pc = "L87" THEN vs' ELSE fs'
            stage == IF pc = "L87" THEN "vertex" ELSE "fragment"
        IN  /\ Len(shaders') = Len(shaders) + 1
            /\ SubSeq(shaders', 1, Len(shaders)) = shaders
            /\ IF o.compiled
               THEN /\ r = o.handle
                    /\ r # 0
                    /\ o.deleteRequests = 0
                    /\ stderr' = stderr
               ELSE /\ r = 0
                    /\ o.deleteRequests = 1
                    /\ ~Named(o)
                    /\ Len(stderr') = Len(stderr) + 2
                    /\ stderr'[Len(stderr) + 1] = <<"Failed to compile ", stage>>

\* C4: when the compile status reports failure, CompileShader writes a
\* diagnostic carrying the stage name, has deleted the shader object it
\* created (the object holds no name any more) and returns 0; when the
\* compilation succeeds it returns the nonzero name of the still-live object
\* and writes nothing.
C4_CompileShaderContract == [][C4_CompileStep]_vars

C4_Witness ==
    /\ pc = "L90"
    /\ vs = 0
    /\ fs # 0
    /\ ~shaders[1].compiled /\ shaders[1].deleteRequests = 1
    /\ shaders[2].compiled /\ shaders[2].deleteRequests = 0

\* C5: whatever the two compile outcomes, when CreateShader returns every
\* shader object created during the call has been requested for destruction
\* exactly once, never twice at any moment, and a successfully compiled
\* shader is deleted only after it was attached and link and validate were
\* requested.
C5_DeletedExactlyOnce ==
    /\ [](\A i \in 1..Len(shaders) : shaders[i].deleteRequests <= 1)
    /\ [](pc = "L160" =>
            /\ Len(shaders) = 2
            /\ \A i \in 1..Len(shaders) : shaders[i].deleteRequests = 1)
    /\ [][\A i \in 1..Len(shaders) :
            (shaders[i].compiled
                /\ shaders'[i].deleteRequests > shaders[i].deleteRequests)
            => /\ shaders[i].attached
               /\ prog.linkRequests = 1
               /\ prog.validateRequests = 1]_vars

C5_Witness ==
    /\ pc = "L160"
    /\ Cardinality(FailedShaders) = 1
    /\ \A i \in 1..Len(shaders) : shaders[i].deleteRequests = 1

\* C10: whatever the compile outcomes, CreateShader requests the attach of
\* both handles (0 included), one link and one validate, returns the program
\* name it created at the start, never 0, writes nothing about linking, and
\* main makes the returned program current without a check.
C10_FailuresNotActedOn ==
    /\ pc = "L160" =>
        /\ shader = prog.handle
        /\ shader # 0
        /\ prog.created = 1
        /\ prog.attachRequests = <<vs, fs>>
        /\ prog.linkRequests = 1
        /\ prog.validateRequests = 1
        /\ Len(stderr) = 2 * Cardinality(FailedShaders)
        /\ \A i \in 1..Len(stderr) :
            stderr[i][1] \in {"Failed to compile ", "message"}
    /\ pc = "L162a" =>
        /\ prog.current = shader
        /\ prog.current = prog.handle
        /\ prog.current # 0

C10_Witness ==
    /\ pc = "L162a"
    /\ vs = 0
    /\ fs = 0
    /\ prog.attachRequests = <<0, 0>>
    /\ prog.current = prog.handle

----------------------------------------------------------------------------
(* The diagnostic wrapper: claims *)

CallSites == {"L162b", "L164b", "L205b", "L206b"}
LogSites == {"L162c", "L164c", "L205c", "L206c"}

SiteLine(site) ==
    IF site = "L162c" THEN 162
    ELSE IF site = "L164c" THEN 164
    ELSE IF site = "L205c" THEN 205
    ELSE 206

SiteExpression(site) ==
    IF site = "L162c" THEN "int location = glGetUniformLocation(shader, \"u_Color\")"
    ELSE IF site = "L164c" THEN "glUniform4f(location, 0.5f, 0.3f, 0.8f, 1.0f)"
    ELSE IF site = "L205c" THEN "glUniform4f(location, r, g, b, 1.0f)"
    ELSE "glDrawElements(GL_TRIANGLES, 6, GL_UNSIGNED_INT, nullptr)"

C6_LogStep ==
    pc \in LogSites /\ pc' # pc =>
        IF callErrs = {}
        THEN pc' # "trapped" /\ stdout' = stdout
        ELSE /\ pc' = "trapped"
             /\ \E error \in callErrs :
                 stdout' = Append(stdout,
                    <<"[OpenGL Error]", error, "Application.cpp",
                      SiteExpression(pc), SiteLine(pc)>>)

\* C6: every error flag pending before a wrapped call is drained before the
\* call executes, so the check after the call traps exactly when the wrapped
\* call itself raised an error; it then prints one of the flags the call
\* raised with the expression, file and line of the call site, and nothing
\* runs after the trap.
C6_DiagnosticWrapper ==
    /\ [](pc \in CallSites => pending = {})
    /\ [][C6_LogStep]_vars
    /\ [][pc = "trapped" => UNCHANGED vars]_vars

C6_Witness ==
    /\ pc = "trapped"
    /\ vs = 0
    /\ uniformLocs # {}
    /\ stdout[Len(stdout)][1] = "[OpenGL Error]"
    /\ stdout[Len(stdout)][5] = 164

----------------------------------------------------------------------------
(* main: claims *)

LoopPcs ==
    {"L178", "L180", "L205a", "L205b", "L205c", "L206a", "L206b", "L206c", "L209"}

\* C7: the location of u_Color is resolved once, before the loop; when the
\* resolution returns -1 the program traps without any uniform update, draw
\* call or loop iteration; every uniform update uses the resolved location.
C7_UniformLocation ==
    /\ resolveCount <= 1
    /\ (pc \in LoopPcs \/ frames > 0 \/ uniformLocs # {} \/ drawCount > 0)
        => resolveCount = 1
    /\ (resolveCount = 1 /\ location = -1) =>
        /\ pc \in {"L162c", "L163", "trapped"}
        /\ uniformLocs = {}
        /\ drawCount = 0
        /\ frames = 0
    /\ uniformLocs \subseteq {location}

C7_TrapWitness ==
    /\ pc = "trapped"
    /\ resolveCount = 1
    /\ location = -1
    /\ callErrs = {}

\* C8 as stated: after the loop has ended and main returns 0, the vertex
\* buffer, the index buffer and the program have each been created once and
\* destroyed once.
C8_AllDestroyedOnce ==
    (pc = "exited" /\ exitCode = 0) =>
        /\ bufs.buffer.generated = 1 /\ bufs.buffer.deleted = 1
        /\ bufs.ibo.generated = 1 /\ bufs.ibo.deleted = 1
        /\ prog.created = 1 /\ prog.deleteRequests = 1

\* C8, amended: the two buffers and the program are each created exactly
\* once before the loop and none is destroyed while the loop runs; after the
\* loop only the program is destroyed by main, exactly once, before it
\* returns 0; main never deletes the buffers, which go with the context that
\* glfwTerminate destroys.
C8_ProgramDestroyedOnce ==
    /\ bufs.buffer.generated <= 1 /\ bufs.ibo.generated <= 1 /\ prog.created <= 1
    /\ bufs.buffer.deleted = 0 /\ bufs.ibo.deleted = 0
    /\ pc \in LoopPcs =>
        /\ bufs.buffer.generated = 1 /\ bufs.ibo.generated = 1 /\ prog.created = 1
        /\ prog.deleteRequests = 0
        /\ glfw.context
    /\ (pc = "exited" /\ exitCode = 0) =>
        /\ bufs.buffer.generated = 1 /\ bufs.ibo.generated = 1 /\ prog.created = 1
        /\ prog.deleteRequests = 1
        /\ ~glfw.context

C8_Witness ==
    /\ pc = "exited"
    /\ exitCode = 0
    /\ frames >= 1
    /\ prog.deleteRequests = 1

InitPcs == {"L108", "L113", "L122"}
NothingCreated ==
    /\ bufs = NoBuffers
    /\ shaders = <<>>
    /\ prog = NoProgram
    /\ frames = 0

\* C9 as stated: a failure of library initialisation, window creation or
\* extension loading is reported to stderr and main returns nonzero at once,
\* before any buffer or shader exists and before the loop.
C9_InitFailureReported ==
    (pc = "exited" /\ exitCode # 0) => (stderr # <<>> /\ NothingCreated)

\* C9, amended: on a failure of library initialisation, window creation or
\* extension loading main returns nonzero at once, with no buffer, shader or
\* program created and the loop not entered; only the extension-loader
\* failure is reported to stderr, the other two return silently; main
\* returns 0 only from line 218, reached only when the loop test ended the
\* loop.
C9_InitFailureExits ==
    /\ [](pc = "exited" /\ exitCode # 0 =>
            /\ NothingCreated
            /\ stderr = (IF glfw.context
                         THEN << <<"[ERROR] Error initializing GLEW">> >>
                         ELSE <<>>))
    /\ [][pc' = "exited" /\ pc # "exited" =>
            /\ exitCode' # 0 <=> pc \in InitPcs
            /\ exitCode' = 0 <=> pc = "L217"]_vars
    /\ [][pc' = "L217" /\ pc # "L217" => pc = "L215"]_vars
    /\ [][pc' = "L215" /\ pc # "L215" => pc = "L178"]_vars

C9_Witness ==
    /\ pc = "exited"
    /\ exitCode # 0
    /\ glfw.context
    /\ stderr # <<>>

====
